---- MODULE Spec2Model ----
(***************************************************************************)
(* A model of mafredo.rao.Rao (src/src/mafredo/rao.py): a table of         *)
(* amplitude and phase over wave direction [deg] and omega [rad/s].        *)
(*                                                                         *)
(* Numbers.  Wave directions, frequencies and amplitudes are integers.     *)
(* A phase is an integer number of sixteenths of pi (Pi == 16), so that    *)
(* -phase + pi, the wrap of np.angle into [-pi, pi] and the angle of the   *)
(* mean of two unit vectors are all computed exactly.  An interpolation    *)
(* step is taken only when its result is such a number (ExactAt): the      *)
(* weights are 0, 1/2 or 1, or the two values are equal, or the two unit   *)
(* vectors are opposite.  Where np.angle is decided by a rounding residue  *)
(* (a mean that vanishes, a vector on the negative real axis) the angle is *)
(* chosen, for each grid point apart.  interp along an axis that holds a   *)
(* value twice fails in pandas (InvalidIndexError).                        *)
(***************************************************************************)
EXTENDS Integers, Sequences, FiniteSets

VARIABLES data,   \* self._data : the xarray Dataset
          mode,   \* self.mode
          call,   \* the last call made: its name, its arguments, what it raised
          ret     \* what that call returned

vars == <<data, mode, call, ret>>

-----------------------------------------------------------------------------
(* Bounds of the model *)

MaxDirections == 4
MaxFrequencies == 4
MaxAmplitude == 16

(* Program constants *)

Pi == 16
FullCircle == 360

None == "None"
Absent == <<>>

MotionMode == {"SURGE", "SWAY", "HEAVE", "ROLL", "PITCH", "YAW"}

-----------------------------------------------------------------------------
(* Sequences and arrays *)

Range(s) == {s[i] : i \in DOMAIN s}
NoDup(s) == \A i, j \in DOMAIN s : i # j => s[i] # s[j]
Min(S) == CHOOSE x \in S : \A y \in S : x <= y
Max(S) == CHOOSE x \in S : \A y \in S : x >= y
Sorted(s) == \A i, j \in DOMAIN s : i < j => s[i] <= s[j]

\* `v in array` of numpy: some element equals v
Contains(s, v) == \E i \in DOMAIN s : s[i] = v

\* the position of element i in a stable ascending sort of xs
Rank(xs, i) ==
    1 + Cardinality({j \in DOMAIN xs : IF xs[j] = xs[i] THEN j < i ELSE xs[j] < xs[i]})

\* the indices of xs in stable ascending order of their values
SortOrder(xs) == [k \in 1..Len(xs) |-> CHOOSE i \in DOMAIN xs : Rank(xs, i) = k]

\* new_headings.sort() / new_omega.sort()
SortedSeq(xs) == [k \in 1..Len(xs) |-> xs[SortOrder(xs)[k]]]

\* the first index of xs holding v
IndexOf(xs, v) == Min({i \in DOMAIN xs : xs[i] = v})

\* the dataset with rows idx[1], idx[2], ... along wave_direction
TakeDirections(ds, idx) ==
    [wave_direction |-> [k \in 1..Len(idx) |-> ds.wave_direction[idx[k]]],
     omega          |-> ds.omega,
     amplitude      |-> [k \in 1..Len(idx) |-> ds.amplitude[idx[k]]],
     phase          |-> [k \in 1..Len(idx) |-> ds.phase[idx[k]]],
     complex_unit   |-> IF ds.complex_unit = Absent THEN Absent
                        ELSE [k \in 1..Len(idx) |-> ds.complex_unit[idx[k]]]]

\* the dataset with columns idx[1], idx[2], ... along omega
TakeFrequencies(ds, idx) ==
    [wave_direction |-> ds.wave_direction,
     omega          |-> [k \in 1..Len(idx) |-> ds.omega[idx[k]]],
     amplitude      |-> [i \in DOMAIN ds.wave_direction |->
                            [k \in 1..Len(idx) |-> ds.amplitude[i][idx[k]]]],
     phase          |-> [i \in DOMAIN ds.wave_direction |->
                            [k \in 1..Len(idx) |-> ds.phase[i][idx[k]]]],
     complex_unit   |-> IF ds.complex_unit = Absent THEN Absent
                        ELSE [i \in DOMAIN ds.wave_direction |->
                                [k \in 1..Len(idx) |-> ds.complex_unit[i][idx[k]]]]]

sortby_wave_direction(ds) == TakeDirections(ds, SortOrder(ds.wave_direction))
sortby_omega(ds) == TakeFrequencies(ds, SortOrder(ds.omega))

-----------------------------------------------------------------------------
(* Phase and complex unit *)

\* np.angle(np.exp(1j * p)): the angle in [-pi, pi] congruent to p; at an
\* odd multiple of pi the imaginary part of exp is a rounding residue with
\* the sign of p, so that -pi stays -pi and pi stays pi
Wrap(p) ==
    IF p % (2 * Pi) = Pi THEN (IF p < 0 THEN -Pi ELSE Pi)
    ELSE ((p + Pi) % (2 * Pi)) - Pi

\* data['complex_unit'] = np.exp(1j * data['phase']); a unit vector is held
\* as its angle in [-pi, pi]
complex_unit_add(ds) ==
    [ds EXCEPT !.complex_unit =
        [i \in DOMAIN ds.phase |-> [j \in DOMAIN ds.phase[i] |-> Wrap(ds.phase[i][j])]]]

\* data.drop_vars('complex_unit')
complex_unit_delete(ds) == [ds EXCEPT !.complex_unit = Absent]

\* data['phase'].values = np.angle(data['complex_unit'].values)
complex_unit_to_phase(ds) == [ds EXCEPT !.phase = ds.complex_unit]

\* amplitude * exp(1j * phase) as a complex number, in polar form
Complex(a, p) ==
    IF a = 0 THEN <<0, 0>>
    ELSE IF a > 0 THEN <<a, Wrap(p)>>
    ELSE <<-a, Wrap(p + Pi)>>

-----------------------------------------------------------------------------
(* The state after Rao() *)

Dummy ==
    [wave_direction |-> <<0, 180>>,
     omega          |-> <<0, 4>>,
     amplitude      |-> <<<<0, 0>>, <<0, 0>>>>,
     phase          |-> <<<<0, 0>>, <<0, 0>>>>,
     complex_unit   |-> Absent]

NoCall == [op |-> "__init__", arg |-> <<>>, raised |-> None]

Init ==
    /\ data = Dummy
    /\ mode = None
    /\ call = NoCall
    /\ ret = None

\* what every call records
Called(op, arg, raised) == call' = [op |-> op, arg |-> arg, raised |-> raised]

-----------------------------------------------------------------------------
(* Inputs of the calls *)

\* an amplitude and a phase for one grid point
Cells == {<<8, 0>>, <<4, 12>>, <<4, -8>>}
NegativeCells == {<<-4, -16>>}

\* a real and an imaginary part for one grid point, one of them zero
ComplexCells == {<<4, 0>>, <<0, -8>>}

\* the arrays of shape [len(d), len(w)] over a set of cells
Arrays(d, w, S) == [DOMAIN d -> [DOMAIN w -> S]]

\* tables on the axes of the dummy, their first heading holding 8 at phase 0
GridTables ==
    {[d |-> <<0, 180>>, w |-> <<0, 4>>, c |-> c] :
        c \in {a \in Arrays(<<0, 180>>, <<0, 4>>, Cells) : \A j \in 1..2 : a[1][j] = <<8, 0>>}
               \cup Arrays(<<0, 180>>, <<0, 4>>, NegativeCells)}

\* headings in and out of order, negative, and congruent modulo 360
DirectionAxes == {<<0, 180>>, <<90, 30>>, <<-10>>, <<10, 370>>}

\* tables of one frequency
SymmetryTables ==
    UNION {{[d |-> d, w |-> <<2>>, c |-> c] : c \in Arrays(d, <<2>>, Cells \cup NegativeCells)} :
                d \in DirectionAxes}

ComplexTables ==
    UNION {{[d |-> d, w |-> <<2>>, c |-> c] : c \in Arrays(d, <<2>>, ComplexCells)} :
                d \in DirectionAxes}

AmplitudeOf(t) == [i \in DOMAIN t.d |-> [j \in DOMAIN t.w |-> t.c[i][j][1]]]
PhaseOf(t) == [i \in DOMAIN t.d |-> [j \in DOMAIN t.w |-> t.c[i][j][2]]]

\* the excitation force of a file: one heading, one frequency
ForceTables == {[d |-> <<0>>, w |-> <<2>>, c |-> c] : c \in Arrays(<<0>>, <<2>>, ComplexCells)}

Keys == {"complex_unit", "omega", "nokey"}
ModeArguments == {None, "ROLL"}
Factors == {-1, 0, 2}
HeadingInputs == {0, 90, 270}
FrequencyInputs == {2, 6}
FrequencyLists == {<<2, 2>>, <<0, 2>>}
NewOmegas == {<<4, 0>>, <<6, 2>>}
NewHeadings == {<<270, 90>>}

\* the angles np.angle may give to a phase vector that vanishes but for
\* rounding: the residue may point anywhere
ZeroAngles == (-Pi)..Pi

\* `omega not in frequencies` for shapes that do not broadcast: numpy raises
\* ValueError, or, before 1.25, warns and finds nothing equal
ShapeMismatch == {"ValueError", "False"}

-----------------------------------------------------------------------------
(* set_data *)

\* xr.Dataset({'amplitude': ..., 'phase': ...}, coords=...): no check of the
\* values, and the mode argument is not used
set_data(directions, omegas, amplitude, phase, m) ==
    /\ data' = [wave_direction |-> directions,
                omega          |-> omegas,
                amplitude      |-> amplitude,
                phase          |-> phase,
                complex_unit   |-> Absent]
    /\ mode' = mode
    /\ ret' = None
    /\ Called("set_data", [mode |-> m], None)

-----------------------------------------------------------------------------
(* from_xarray_nocomplex *)

Abs(n) == IF n < 0 THEN -n ELSE n

\* np.abs(re + 1j*im) for re = 0 or im = 0
AbsComplex(c) == Abs(c[1]) + Abs(c[2])

\* np.angle(re + 1j*im) for re = 0 or im = 0
Angle(c) ==
    IF c[2] > 0 THEN Pi \div 2
    ELSE IF c[2] < 0 THEN -(Pi \div 2)
    ELSE IF c[1] < 0 THEN Pi
    ELSE 0

from_xarray_nocomplex(directions, omegas, c, m) ==
    IF m \notin MotionMode
    THEN \* assert isinstance(mode, MotionMode)
         /\ UNCHANGED <<data, mode>>
         /\ ret' = None
         /\ Called("from_xarray_nocomplex", [mode |-> m], "AssertionError")
    ELSE /\ data' = [wave_direction |-> directions,
                     omega          |-> omegas,
                     amplitude      |-> [i \in DOMAIN c |-> [j \in DOMAIN c[i] |-> AbsComplex(c[i][j])]],
                     phase          |-> [i \in DOMAIN c |-> [j \in DOMAIN c[i] |-> Angle(c[i][j])]],
                     complex_unit   |-> Absent]
         /\ mode' = m
         /\ ret' = None
         /\ Called("from_xarray_nocomplex", [mode |-> m], None)

-----------------------------------------------------------------------------
(* scale *)

ScaleRaises(factor) == factor < 0

\* self._data['amplitude'] *= factor
ScaledByAdding(ds, factor) ==
    [ds EXCEPT !.amplitude =
        [i \in DOMAIN ds.amplitude |->
            [j \in DOMAIN ds.amplitude[i] |-> ds.amplitude[i][j] + factor]]]
Scaled(ds, factor) ==
    [ds EXCEPT !.amplitude =
        [i \in DOMAIN ds.amplitude |->
            [j \in DOMAIN ds.amplitude[i] |-> ds.amplitude[i][j] * factor]]]

AmplitudesOf(ds) == {ds.amplitude[i][j] : i \in DOMAIN ds.wave_direction, j \in DOMAIN ds.omega}

scale(factor) ==
    IF ScaleRaises(factor)
    THEN /\ UNCHANGED <<data, mode>>
         /\ ret' = None
         /\ Called("scale", [factor |-> factor], "ValueError")
    ELSE /\ \A a \in AmplitudesOf(Scaled(data, factor)) : Abs(a) <= MaxAmplitude
         /\ data' = Scaled(data, factor)
         /\ mode' = mode
         /\ ret' = None
         /\ Called("scale", [factor |-> factor], None)

-----------------------------------------------------------------------------
(* add_symmetry_xz *)

Antisymmetric == {"SWAY", "ROLL", "YAW"}
Symmetric == {"SURGE", "HEAVE", "PITCH"}

\* np.mod(-direction, 360)
Mirror(direction) == (-direction) % FullCircle

\* sym['phase'] = -sym['phase'] + np.pi
OppositePhase(p) == -p + Pi

\* the headings, in the order of the loop, that get a mirrored column:
\* `direction_copy in directions` looks at the headings of before the loop
ToMirror(ds) ==
    SelectSeq([i \in DOMAIN ds.wave_direction |-> i],
              LAMBDA i : ~Contains(ds.wave_direction, Mirror(ds.wave_direction[i])))

\* xr.concat([self._data, sym], dim='wave_direction') for each of them
WithMirrors(ds, opposite) ==
    LET n   == Len(ds.wave_direction)
        add == ToMirror(ds)
        src(k) == IndexOf(ds.wave_direction, ds.wave_direction[add[k - n]])
    IN [wave_direction |-> [k \in 1..(n + Len(add)) |->
                              IF k <= n THEN ds.wave_direction[k]
                              ELSE Mirror(ds.wave_direction[add[k - n]])],
        omega          |-> ds.omega,
        amplitude      |-> [k \in 1..(n + Len(add)) |->
                              IF k <= n THEN ds.amplitude[k] ELSE ds.amplitude[src(k)]],
        phase          |-> [k \in 1..(n + Len(add)) |->
                              IF k <= n THEN ds.phase[k]
                              ELSE IF opposite
                                   THEN [j \in DOMAIN ds.omega |-> OppositePhase(ds.phase[src(k)][j])]
                                   ELSE ds.phase[src(k)]],
        complex_unit   |-> IF ds.complex_unit = Absent THEN Absent
                           ELSE [k \in 1..(n + Len(add)) |->
                                   IF k <= n THEN ds.complex_unit[k]
                                   ELSE ds.complex_unit[src(k)]]]

IsOppositeWithHeave(m) == m \in Antisymmetric \cup {"HEAVE"}
IsOpposite(m) == m \in Antisymmetric

SymmetryXZ(ds, m) == sortby_wave_direction(WithMirrors(ds, IsOpposite(m)))

add_symmetry_xz ==
    IF mode \notin Antisymmetric \cup Symmetric
    THEN \* raise ValueError('...'.format(mode)): the name mode is not defined
         /\ UNCHANGED <<data, mode>>
         /\ ret' = None
         /\ Called("add_symmetry_xz", <<>>, "NameError")
    ELSE /\ Len(SymmetryXZ(data, mode).wave_direction) <= MaxDirections
         /\ data' = SymmetryXZ(data, mode)
         /\ mode' = mode
         /\ ret' = None
         /\ Called("add_symmetry_xz", <<>>, None)

-----------------------------------------------------------------------------

(* Linear interpolation, as xarray's interp(method='linear') does it *)

\* the nearest coordinates at or below and at or above x (xs ascending)
Below(xs, x) == Max({k \in DOMAIN xs : xs[k] <= x})
Above(xs, x) == Min({k \in DOMAIN xs : xs[k] >= x})
Covers(xs, x) == \E k \in DOMAIN xs : xs[k] <= x /\ \E l \in DOMAIN xs : xs[l] >= x

\* slope * (x - x0) + y0
LinearAmplitude(x0, y0, x1, y1, x) == y0 + ((y1 - y0) * (x - x0)) \div (x1 - x0)
ExactAmplitude(x0, y0, x1, y1, x) == ((y1 - y0) * (x - x0)) % (x1 - x0) = 0

\* the direction of the unit vector held as angle c: -pi and pi are one
Direction(c) == IF c = -Pi THEN Pi ELSE c

\* the mean of the unit vectors at c0 and c1 vanishes but for rounding
Vanishes(c0, c1) == Abs(Direction(c0) - Direction(c1)) = Pi

\* the direction, in (-pi, pi], of the mean of the unit vectors at c0 and c1
MeanAngle(c0, c1) ==
    IF Abs(Direction(c0) - Direction(c1)) < Pi
    THEN (Direction(c0) + Direction(c1)) \div 2
    ELSE Direction(Wrap((Direction(c0) + Direction(c1)) \div 2 + Pi))

\* the interpolated vector at x vanishes but for rounding: x is half-way
\* between opposite unit vectors
VanishesAt(x0, c0, x1, c1, x) == IF Vanishes(c0, c1) THEN 2 * x = x0 + x1 ELSE FALSE

\* the direction, in (-pi, pi], of the vector interpolated at x between the
\* unit vectors at c0 and c1: between opposite vectors it is a multiple of
\* the nearer one, half-way between two others it is their mean
UnitAngle(x0, c0, x1, c1, x) ==
    IF Vanishes(c0, c1)
    THEN (IF 2 * x < x0 + x1 THEN Direction(c0) ELSE Direction(c1))
    ELSE MeanAngle(c0, c1)

\* np.angle of the interpolated vector is decided by a rounding residue: the
\* vector vanishes, or it lies on the negative real axis and its imaginary
\* part is a residue
Rounded(x0, c0, x1, c1, x) ==
    IF c0 = c1 THEN FALSE
    ELSE IF VanishesAt(x0, c0, x1, c1, x) THEN TRUE
    ELSE UnitAngle(x0, c0, x1, c1, x) = Pi

\* slope * (x - x_lo) + y_lo at a coordinate x that is on the axis, where
\* the series holds a unit vector on the negative real axis: the vector is
\* rebuilt from its lower neighbour, and unless the two are equal (or there
\* is no lower neighbour) the residue that tells pi from -pi is rounded anew
RoundedAtCoordinate(xs, ys, x) ==
    IF IndexOf(xs, x) = 1 THEN FALSE
    ELSE IF Direction(ys[IndexOf(xs, x)]) # Pi THEN FALSE
    ELSE ys[IndexOf(xs, x) - 1] # ys[IndexOf(xs, x)]

\* the angles np.angle may then give, one for each such grid point: an
\* angle of ZeroAngles where the mean vanishes, pi or -pi where it does not
Roundings(cells, vanishing) ==
    {[vanishing |-> vanishing, zero |-> f, straight |-> cells \ vanishing, sign |-> g] :
        f \in [vanishing -> ZeroAngles], g \in [cells \ vanishing -> {Pi, -Pi}]}

\* no grid point is decided by rounding
NoRounding == [vanishing |-> {}, zero |-> <<>>, straight |-> {}, sign |-> <<>>]

\* the angle chosen for the grid point c
AngleAt(z, c) ==
    IF c \in z.vanishing THEN z.zero[c]
    ELSE IF c \in z.straight THEN z.sign[c]
    ELSE 0

\* np.angle of the interpolated complex unit; r is the angle rounding gives
LinearUnit(x0, c0, x1, c1, x, r) ==
    IF c0 = c1 THEN c0
    ELSE IF Rounded(x0, c0, x1, c1, x) THEN r
    ELSE UnitAngle(x0, c0, x1, c1, x)

\* the angle is a number of the model: anywhere between vectors of one
\* direction or of opposite directions, half-way between two others
ExactUnit(x0, c0, x1, c1, x) ==
    IF Direction(c0) = Direction(c1) THEN TRUE
    ELSE IF Vanishes(c0, c1) THEN TRUE
    ELSE IF 2 * x = x0 + x1 THEN (Direction(c0) + Direction(c1)) % 2 = 0
    ELSE FALSE

\* the value at x of the series ys over the ascending coordinates xs
InterpAt(xs, ys, x, unit, r) ==
    IF Contains(xs, x)
    THEN IF (IF unit THEN RoundedAtCoordinate(xs, ys, x) ELSE FALSE) THEN r
         ELSE ys[IndexOf(xs, x)]
    ELSE IF unit
         THEN LinearUnit(xs[Below(xs, x)], ys[Below(xs, x)], xs[Above(xs, x)], ys[Above(xs, x)], x, r)
         ELSE LinearAmplitude(xs[Below(xs, x)], ys[Below(xs, x)], xs[Above(xs, x)], ys[Above(xs, x)], x)

ExactAt(xs, ys, x, unit) ==
    /\ Covers(xs, x)
    /\ IF Contains(xs, x) THEN TRUE
       ELSE IF unit
            THEN ExactUnit(xs[Below(xs, x)], ys[Below(xs, x)], xs[Above(xs, x)], ys[Above(xs, x)], x)
            ELSE ExactAmplitude(xs[Below(xs, x)], ys[Below(xs, x)], xs[Above(xs, x)], ys[Above(xs, x)], x)

Column(m, j) == [i \in DOMAIN m |-> m[i][j]]

\* ds.interp(omega=new_omega, method='linear'): ds is sorted by omega first
interp_omega(ds, new_omega, z) ==
    LET s == sortby_omega(ds)
    IN [wave_direction |-> s.wave_direction,
        omega          |-> new_omega,
        amplitude      |-> [i \in DOMAIN s.wave_direction |-> [k \in DOMAIN new_omega |->
                              InterpAt(s.omega, s.amplitude[i], new_omega[k], FALSE, 0)]],
        phase          |-> [i \in DOMAIN s.wave_direction |-> [k \in DOMAIN new_omega |->
                              InterpAt(s.omega, s.phase[i], new_omega[k], FALSE, 0)]],
        complex_unit   |-> [i \in DOMAIN s.wave_direction |-> [k \in DOMAIN new_omega |->
                              InterpAt(s.omega, s.complex_unit[i], new_omega[k], TRUE, AngleAt(z, <<i, k>>))]]]

\* ds.interp(wave_direction=new_headings, method='linear')
interp_wave_direction(ds, new_headings, z) ==
    LET s == sortby_wave_direction(ds)
    IN [wave_direction |-> new_headings,
        omega          |-> s.omega,
        amplitude      |-> [k \in DOMAIN new_headings |-> [j \in DOMAIN s.omega |->
                              InterpAt(s.wave_direction, Column(s.amplitude, j), new_headings[k], FALSE, 0)]],
        phase          |-> [k \in DOMAIN new_headings |-> [j \in DOMAIN s.omega |->
                              InterpAt(s.wave_direction, Column(s.phase, j), new_headings[k], FALSE, 0)]],
        complex_unit   |-> [k \in DOMAIN new_headings |-> [j \in DOMAIN s.omega |->
                              InterpAt(s.wave_direction, Column(s.complex_unit, j), new_headings[k], TRUE, AngleAt(z, <<k, j>>))]]]

\* every interpolated amplitude and phase vector is a number of the model
ExactOmega(ds, new_omega) ==
    LET s == sortby_omega(ds)
    IN /\ NoDup(s.omega)
       /\ \A i \in DOMAIN s.wave_direction, k \in DOMAIN new_omega :
            /\ ExactAt(s.omega, s.amplitude[i], new_omega[k], FALSE)
            /\ ExactAt(s.omega, s.complex_unit[i], new_omega[k], TRUE)

ExactDirection(ds, new_headings) ==
    LET s == sortby_wave_direction(ds)
    IN /\ NoDup(s.wave_direction)
       /\ \A k \in DOMAIN new_headings, j \in DOMAIN s.omega :
            /\ ExactAt(s.wave_direction, Column(s.amplitude, j), new_headings[k], FALSE)
            /\ ExactAt(s.wave_direction, Column(s.complex_unit, j), new_headings[k], TRUE)

\* the series ys over xs, read at x, is decided by rounding
RoundedIn(xs, ys, x) ==
    IF Contains(xs, x) THEN RoundedAtCoordinate(xs, ys, x)
    ELSE Rounded(xs[Below(xs, x)], ys[Below(xs, x)], xs[Above(xs, x)], ys[Above(xs, x)], x)

VanishesIn(xs, ys, x) ==
    IF Contains(xs, x) THEN FALSE
    ELSE VanishesAt(xs[Below(xs, x)], ys[Below(xs, x)], xs[Above(xs, x)], ys[Above(xs, x)], x)

\* the grid points of ds.interp(omega=new_omega) whose phase vector is
\* decided by rounding, and the angles np.angle may give them
RoundedOmega(ds, new_omega) ==
    LET s == sortby_omega(ds)
    IN {c \in (DOMAIN s.wave_direction) \X (DOMAIN new_omega) :
          RoundedIn(s.omega, s.complex_unit[c[1]], new_omega[c[2]])}

RoundingsOmega(ds, new_omega) ==
    LET s == sortby_omega(ds)
    IN Roundings(RoundedOmega(ds, new_omega),
                 {c \in RoundedOmega(ds, new_omega) :
                    VanishesIn(s.omega, s.complex_unit[c[1]], new_omega[c[2]])})

\* the same for ds.interp(wave_direction=new_headings)
RoundedDirection(ds, new_headings) ==
    LET s == sortby_wave_direction(ds)
    IN {c \in (DOMAIN new_headings) \X (DOMAIN s.omega) :
          RoundedIn(s.wave_direction, Column(s.complex_unit, c[2]), new_headings[c[1]])}

RoundingsDirection(ds, new_headings) ==
    LET s == sortby_wave_direction(ds)
    IN Roundings(RoundedDirection(ds, new_headings),
                 {c \in RoundedDirection(ds, new_headings) :
                    VanishesIn(s.wave_direction, Column(s.complex_unit, c[2]), new_headings[c[1]])})

-----------------------------------------------------------------------------
(* mafredo.helpers *)

\* the lowest column repeated at min(new_omega) and the highest at
\* max(new_omega), where new_omega reaches beyond the frequencies of ds
expand_omega_dim_const(ds, new_omega) ==
    LET lo   == Min(Range(new_omega))
        hi   == Max(Range(new_omega))
        head == IF lo < Min(Range(ds.omega))
                THEN <<IndexOf(ds.omega, Min(Range(ds.omega)))>> ELSE <<>>
        tail == IF hi > Max(Range(ds.omega))
                THEN <<IndexOf(ds.omega, Max(Range(ds.omega)))>> ELSE <<>>
        t    == TakeFrequencies(ds, head \o [k \in DOMAIN ds.omega |-> k] \o tail)
    IN [t EXCEPT !.omega = (IF head = <<>> THEN <<>> ELSE <<lo>>) \o ds.omega
                           \o (IF tail = <<>> THEN <<>> ELSE <<hi>>)]

\* the highest heading repeated 360 degrees lower and the lowest heading
\* repeated 360 degrees higher, where these are not headings of ds already
expand_direction_to_full_range(ds) ==
    LET lo   == Min(Range(ds.wave_direction))
        hi   == Max(Range(ds.wave_direction))
        head == IF Contains(ds.wave_direction, hi - FullCircle)
                THEN <<>> ELSE <<IndexOf(ds.wave_direction, hi)>>
        tail == IF Contains(ds.wave_direction, lo + FullCircle)
                THEN <<>> ELSE <<IndexOf(ds.wave_direction, lo)>>
        t    == TakeDirections(ds, head \o [k \in DOMAIN ds.wave_direction |-> k] \o tail)
    IN [t EXCEPT !.wave_direction =
            (IF head = <<>> THEN <<>> ELSE <<hi - FullCircle>>) \o ds.wave_direction
            \o (IF tail = <<>> THEN <<>> ELSE <<lo + FullCircle>>)]

-----------------------------------------------------------------------------
(* regrid_omega, regrid_direction *)

RegridOmegaInterp(ds, new_omega, z) ==
    interp_omega(complex_unit_add(expand_omega_dim_const(ds, new_omega)), new_omega, z)

RegridOmegaSorted(ds, new_omega, z) ==
    complex_unit_delete(complex_unit_to_phase(RegridOmegaInterp(ds, SortedSeq(new_omega), z)))
RegridOmega(ds, new_omega, z) ==
    complex_unit_delete(complex_unit_to_phase(RegridOmegaInterp(ds, new_omega, z)))

CanRegridOmega(ds, new_omega) ==
    ExactOmega(complex_unit_add(expand_omega_dim_const(ds, new_omega)), new_omega)

RegridOmegaRoundings(ds, new_omega) ==
    RoundingsOmega(complex_unit_add(expand_omega_dim_const(ds, new_omega)), new_omega)

RegridDirection(ds, new_headings, z) ==
    complex_unit_delete(complex_unit_to_phase(
        interp_wave_direction(complex_unit_add(expand_direction_to_full_range(ds)),
                              new_headings, z)))

CanRegridDirection(ds, new_headings) ==
    ExactDirection(complex_unit_add(expand_direction_to_full_range(ds)), new_headings)

RegridDirectionRoundings(ds, new_headings) ==
    RoundingsDirection(complex_unit_add(expand_direction_to_full_range(ds)), new_headings)

\* interp along an axis of the expanded dataset that holds a value twice
\* raises; the expansion adds no value that is on the axis
RegridOmegaRaises(ds) == ~NoDup(ds.omega)
RegridDirectionRaises(ds) == ~NoDup(ds.wave_direction)

\* the dataset left when interp raises: _complex_unit_add has stored
\* complex_unit on the expanded dataset, which is self._data itself if the
\* helper returns its argument where it has nothing to add
InterpRaised(ds, expanded) ==
    IF expanded = ds THEN {ds, complex_unit_add(ds)} ELSE {ds}

RegridOmegaRaised(ds, new_omega) == InterpRaised(ds, expand_omega_dim_const(ds, new_omega))
RegridDirectionRaised(ds) == InterpRaised(ds, expand_direction_to_full_range(ds))

regrid_omega(new_omega) ==
    /\ Len(new_omega) <= MaxFrequencies
    /\ IF RegridOmegaRaises(data)
       THEN /\ data' \in RegridOmegaRaised(data, new_omega)
            /\ Called("regrid_omega", [new_omega |-> new_omega], "InvalidIndexError")
       ELSE /\ CanRegridOmega(data, new_omega) = TRUE
            /\ \E z \in RegridOmegaRoundings(data, new_omega) :
                 data' = RegridOmega(data, new_omega, z)
            /\ Called("regrid_omega", [new_omega |-> new_omega], None)
    /\ mode' = mode
    /\ ret' = None

regrid_direction(new_headings) ==
    /\ Len(new_headings) <= MaxDirections
    /\ IF RegridDirectionRaises(data)
       THEN /\ data' \in RegridDirectionRaised(data)
            /\ Called("regrid_direction", [new_headings |-> new_headings], "InvalidIndexError")
       ELSE /\ CanRegridDirection(data, new_headings) = TRUE
            /\ \E z \in RegridDirectionRoundings(data, new_headings) :
                 data' = RegridDirection(data, new_headings, z)
            /\ Called("regrid_direction", [new_headings |-> new_headings], None)
    /\ mode' = mode
    /\ ret' = None

-----------------------------------------------------------------------------
(* add_direction, add_frequency *)

AddDirectionAlways(ds, wave_direction, z) ==
    RegridDirection(ds, SortedSeq(ds.wave_direction \o <<wave_direction>>), z)
AddDirection(ds, wave_direction, z) ==
    IF Contains(ds.wave_direction, wave_direction) THEN ds
    ELSE RegridDirection(ds, SortedSeq(ds.wave_direction \o <<wave_direction>>), z)

CanAddDirection(ds, wave_direction) ==
    IF Contains(ds.wave_direction, wave_direction) THEN TRUE
    ELSE /\ Len(ds.wave_direction) < MaxDirections
         /\ CanRegridDirection(ds, SortedSeq(ds.wave_direction \o <<wave_direction>>))

AddDirectionRoundings(ds, wave_direction) ==
    IF Contains(ds.wave_direction, wave_direction) THEN {NoRounding}
    ELSE RegridDirectionRoundings(ds, SortedSeq(ds.wave_direction \o <<wave_direction>>))

\* frequencies == omega of numpy broadcasts the two shapes
Broadcasts(frequencies, omega) ==
    IF Len(omega) = 1 THEN TRUE
    ELSE IF Len(frequencies) = 1 THEN TRUE
    ELSE Len(omega) = Len(frequencies)

\* `omega in frequencies` for the list omega: (frequencies == omega).any()
InFrequencies(frequencies, omega) ==
    IF ~Broadcasts(frequencies, omega) THEN FALSE
    ELSE \E i \in DOMAIN frequencies :
            \E j \in DOMAIN omega :
                IF frequencies[i] # omega[j] THEN FALSE
                ELSE IF Len(omega) = 1 THEN TRUE
                ELSE IF Len(frequencies) = 1 THEN TRUE
                ELSE i = j

\* omega is the list the code holds after `omega = [omega]` for a scalar
AddFrequency(ds, omega, z) ==
    IF InFrequencies(ds.omega, omega) THEN ds
    ELSE RegridOmega(ds, SortedSeq(ds.omega \o omega), z)

CanAddFrequency(ds, omega) ==
    IF InFrequencies(ds.omega, omega) THEN TRUE
    ELSE /\ Len(ds.omega) + Len(omega) <= MaxFrequencies
         /\ CanRegridOmega(ds, SortedSeq(ds.omega \o omega))

AddFrequencyRoundings(ds, omega) ==
    IF InFrequencies(ds.omega, omega) THEN {NoRounding}
    ELSE RegridOmegaRoundings(ds, SortedSeq(ds.omega \o omega))

\* the regrid is made, and it raises
AddDirectionRaises(ds, wave_direction) ==
    IF Contains(ds.wave_direction, wave_direction) THEN FALSE
    ELSE RegridDirectionRaises(ds)

AddFrequencyRaises(ds, omega) ==
    IF InFrequencies(ds.omega, omega) THEN FALSE
    ELSE RegridOmegaRaises(ds)

add_direction(wave_direction) ==
    /\ IF AddDirectionRaises(data, wave_direction)
       THEN /\ data' \in RegridDirectionRaised(data)
            /\ Called("add_direction", [wave_direction |-> wave_direction], "InvalidIndexError")
       ELSE /\ CanAddDirection(data, wave_direction) = TRUE
            /\ \E z \in AddDirectionRoundings(data, wave_direction) :
                 data' = AddDirection(data, wave_direction, z)
            /\ Called("add_direction", [wave_direction |-> wave_direction], None)
    /\ mode' = mode
    /\ ret' = None

add_frequency(omega) ==
    \E numpy \in ShapeMismatch :
        /\ IF (IF Broadcasts(data.omega, omega) THEN FALSE ELSE numpy = "ValueError")
           THEN /\ data' = data
                /\ Called("add_frequency", [omega |-> omega], "ValueError")
           ELSE IF AddFrequencyRaises(data, omega)
           THEN /\ data' \in RegridOmegaRaised(data, SortedSeq(data.omega \o omega))
                /\ Called("add_frequency", [omega |-> omega], "InvalidIndexError")
           ELSE /\ CanAddFrequency(data, omega) = TRUE
                /\ \E z \in AddFrequencyRoundings(data, omega) :
                     data' = AddFrequency(data, omega, z)
                /\ Called("add_frequency", [omega |-> omega], None)
        /\ mode' = mode
        /\ ret' = None

-----------------------------------------------------------------------------
(* get_value, __getitem__ *)

\* self['complex_unit']: _complex_unit_add(self._data) on the stored dataset
getitem_complex_unit(ds) == complex_unit_add(ds)

\* .sel(wave_direction=wave_direction, omega=omega).values of cu * amp:
\* every row at the heading and every column at the frequency
Selected(ds, omega, wave_direction) ==
    LET rows == SelectSeq([i \in DOMAIN ds.wave_direction |-> i],
                          LAMBDA i : ds.wave_direction[i] = wave_direction)
        cols == SelectSeq([j \in DOMAIN ds.omega |-> j],
                          LAMBDA j : ds.omega[j] = omega)
    IN [k \in DOMAIN rows |->
          [l \in DOMAIN cols |->
             Complex(ds.amplitude[rows[k]][cols[l]], ds.complex_unit[rows[k]][cols[l]])]]

\* add_direction, add_frequency, then the selection; a regrid that raises
\* ends the call and leaves what was done before it
get_value(omega, wave_direction) ==
    /\ IF AddDirectionRaises(data, wave_direction)
       THEN /\ data' \in RegridDirectionRaised(data)
            /\ ret' = None
            /\ Called("get_value", [omega |-> omega, wave_direction |-> wave_direction],
                      "InvalidIndexError")
       ELSE /\ CanAddDirection(data, wave_direction) = TRUE
            /\ \E z1 \in AddDirectionRoundings(data, wave_direction) :
                 LET d1 == AddDirection(data, wave_direction, z1)
                 IN IF AddFrequencyRaises(d1, <<omega>>)
                    THEN /\ data' \in RegridOmegaRaised(d1, SortedSeq(d1.omega \o <<omega>>))
                         /\ ret' = None
                         /\ Called("get_value",
                                   [omega |-> omega, wave_direction |-> wave_direction],
                                   "InvalidIndexError")
                    ELSE /\ CanAddFrequency(d1, <<omega>>) = TRUE
                         /\ \E z2 \in AddFrequencyRoundings(d1, <<omega>>) :
                              LET d2 == getitem_complex_unit(AddFrequency(d1, <<omega>>, z2))
                              IN /\ data' = d2
                                 /\ ret' = Selected(d2, omega, wave_direction)
                         /\ Called("get_value",
                                   [omega |-> omega, wave_direction |-> wave_direction], None)
    /\ mode' = mode

\* the variables and the coordinates of the dataset
Stored(ds) ==
    {"wave_direction", "omega", "amplitude", "phase"}
        \cup (IF ds.complex_unit = Absent THEN {} ELSE {"complex_unit"})

\* rao[key]: 'complex_unit' is computed and stored first; any other key is
\* looked up in the dataset
getitem(key) ==
    IF key = "complex_unit"
    THEN /\ data' = getitem_complex_unit(data)
         /\ ret' = getitem_complex_unit(data).complex_unit
         /\ mode' = mode
         /\ Called("__getitem__", [key |-> key], None)
    ELSE IF key \in Stored(data)
    THEN /\ UNCHANGED <<data, mode>>
         /\ ret' = data[key]
         /\ Called("__getitem__", [key |-> key], None)
    ELSE /\ UNCHANGED <<data, mode>>
         /\ ret' = None
         /\ Called("__getitem__", [key |-> key], "KeyError")

-----------------------------------------------------------------------------
(* to_xarray_nocomplex, wave_force_from_capytaine *)

\* the copy e is made before self['complex_unit'] stores the channel on
\* self._data; real and imag are held as the complex number in polar form
to_xarray_nocomplex ==
    /\ data' = getitem_complex_unit(data)
    /\ ret' = [wave_direction |-> data.wave_direction,
               omega          |-> data.omega,
               complex_unit   |-> data.complex_unit,
               value          |-> [i \in DOMAIN data.wave_direction |->
                                     [j \in DOMAIN data.omega |->
                                        Complex(data.amplitude[i][j],
                                                getitem_complex_unit(data).complex_unit[i][j])]]]
    /\ mode' = mode
    /\ Called("to_xarray_nocomplex", <<>>, None)

\* the excitation force c of the file for the mode, over the axes of the file
\* (l.199-204: a new Dataset with amplitude and phase only); the method ends
\* with self.mode = mode (l.206) and drops no variable, so it returns None
wave_force_from_capytaine(directions, omegas, c, m) ==
    /\ data' = [wave_direction |-> directions,
                omega          |-> omegas,
                amplitude      |-> [i \in DOMAIN c |-> [j \in DOMAIN c[i] |-> AbsComplex(c[i][j])]],
                phase          |-> [i \in DOMAIN c |-> [j \in DOMAIN c[i] |-> Angle(c[i][j])]],
                complex_unit   |-> Absent]
    /\ mode' = m
    /\ ret' = None
    /\ Called("wave_force_from_capytaine", [mode |-> m], None)

-----------------------------------------------------------------------------

(* The calls, over sets of inputs *)

SetData(T, M) ==
    \E t \in T, m \in M : set_data(t.d, t.w, AmplitudeOf(t), PhaseOf(t), m)
FromXarrayNocomplex(T, M) ==
    \E t \in T, m \in M : from_xarray_nocomplex(t.d, t.w, t.c, m)
Scale(F) == \E f \in F : scale(f)
RegridOmegaTo(S) == \E new_omega \in S : regrid_omega(new_omega)
RegridDirectionTo(S) == \E new_headings \in S : regrid_direction(new_headings)
AddDirectionOf(H) == \E h \in H : add_direction(h)
AddFrequencyOf(W, L) == \E omega \in {<<w>> : w \in W} \cup L : add_frequency(omega)
GetValueAt(W, H) == \E w \in W, h \in H : get_value(w, h)
GetItem(K) == \E key \in K : getitem(key)
WaveForceFromCapytaine(T, M) ==
    \E t \in T, m \in M : wave_force_from_capytaine(t.d, t.w, t.c, m)

\* every call that changes the object, over few inputs
Next ==
    \/ SetData(GridTables, ModeArguments)
    \/ FromXarrayNocomplex(ComplexTables, {None, "ROLL"})
    \/ WaveForceFromCapytaine(ForceTables, {"HEAVE"})
    \/ Scale({-1, 2})
    \/ add_symmetry_xz
    \/ RegridOmegaTo({<<4, 0>>})
    \/ RegridDirectionTo(NewHeadings)
    \/ AddDirectionOf({90})
    \/ AddFrequencyOf({2}, {})
    \/ GetValueAt({2}, {90})
    \/ GetItem({"complex_unit", "nokey"})
    \/ to_xarray_nocomplex

Spec == Init /\ [][Next]_vars

\* loading a table and extending it by symmetry
NextSymmetry ==
    \/ SetData(SymmetryTables, ModeArguments)
    \/ FromXarrayNocomplex(ComplexTables, MotionMode \cup {None})
    \/ add_symmetry_xz
    \/ GetItem(Keys)

SpecSymmetry == Init /\ [][NextSymmetry]_vars

\* loading a table, scaling, regridding and reading it
NextGrid ==
    \/ SetData(GridTables, {None})
    \/ Scale(Factors)
    \/ RegridOmegaTo(NewOmegas)
    \/ RegridDirectionTo(NewHeadings)
    \/ AddDirectionOf(HeadingInputs)
    \/ AddFrequencyOf(FrequencyInputs, FrequencyLists)
    \/ GetValueAt({2}, {90})
    \/ GetItem({"complex_unit"})

SpecGrid == Init /\ [][NextGrid]_vars

-----------------------------------------------------------------------------
(* Properties *)

Directions(ds) == DOMAIN ds.wave_direction
Frequencies(ds) == DOMAIN ds.omega

\* two phases that are the same angle
SameAngle(p, q) == (p - q) % (2 * Pi) = 0

\* an amplitude and a phase at every pair of a heading and a frequency
Dense(ds) ==
    /\ DOMAIN ds.amplitude = Directions(ds)
    /\ DOMAIN ds.phase = Directions(ds)
    /\ \A i \in Directions(ds) :
         DOMAIN ds.amplitude[i] = Frequencies(ds) /\ DOMAIN ds.phase[i] = Frequencies(ds)

\* ds holds the column i of ds0, at the same heading
Keeps(ds, ds0, i) ==
    \E k \in Directions(ds) :
        /\ ds.wave_direction[k] = ds0.wave_direction[i]
        /\ ds.amplitude[k] = ds0.amplitude[i]
        /\ ds.phase[k] = ds0.phase[i]

\* ds holds a mirror of the column i of ds0: the same amplitudes at the
\* heading (-h) mod 360, and the phases -phase + pi (modulo 2 pi) if opposite,
\* the same phases if not
Mirrors(ds, ds0, i, opposite) ==
    \E k \in Directions(ds) :
        /\ ds.wave_direction[k] = (-ds0.wave_direction[i]) % 360
        /\ ds.amplitude[k] = ds0.amplitude[i]
        /\ \A j \in Frequencies(ds0) :
             IF opposite THEN SameAngle(ds.phase[k][j], Pi - ds0.phase[i][j])
             ELSE ds.phase[k][j] = ds0.phase[i][j]

\* C1: add_symmetry_xz gives every heading h whose mirror (-h) mod 360 is
\* missing a column at the mirror, with the amplitude of h and with the phase
\* -phase(h) + pi (modulo 2 pi) for SWAY, ROLL, YAW and phase(h) for SURGE,
\* HEAVE, PITCH; the columns of before are kept and the headings end sorted.
C1_SignConvention ==
    [][(call'.op = "add_symmetry_xz" /\ call'.raised = None) =>
          /\ \A i \in Directions(data) :
               (\A l \in Directions(data) :
                    data.wave_direction[l] # (-data.wave_direction[i]) % 360)
               => Mirrors(data', data, i, mode \in {"SWAY", "ROLL", "YAW"})
          /\ \A i \in Directions(data) : Keeps(data', data, i)
          /\ Sorted(data'.wave_direction)]_vars

C1_Witness ==
    /\ call.op = "add_symmetry_xz"
    /\ call.raised = None
    /\ mode = "ROLL"
    /\ data.wave_direction = <<30, 90, 270, 330>>
    /\ data.amplitude = <<<<4>>, <<8>>, <<8>>, <<4>>>>
    /\ data.phase = <<<<12>>, <<0>>, <<16>>, <<4>>>>

\* C2: after add_symmetry_xz no heading is there twice, and add_symmetry_xz
\* once more leaves the table as it is.
C2_SymmetryIdempotent ==
    (call.op = "add_symmetry_xz" /\ call.raised = None) =>
        /\ NoDup(data.wave_direction)
        /\ SymmetryXZ(data, mode) = data

\* C7: set_data(..., mode=M) with M one of the six modes makes M the mode.
C7_ModeOfSetData ==
    (call.op = "set_data" /\ call.arg.mode \in MotionMode) => mode = call.arg.mode

\* C8: add_symmetry_xz with the mode unset or unknown fails with the
\* ValueError 'Unknown setting for mode'.
C8_UnknownModeValueError ==
    (call.op = "add_symmetry_xz" /\ mode \notin MotionMode) => call.raised = "ValueError"

\* C3: scale(factor) with factor < 0 fails with ValueError and leaves the
\* table as it is; with factor >= 0 it does not fail, multiplies every
\* amplitude by factor and leaves the phases and both axes as they are.
C3_Scale ==
    [][call'.op = "scale" =>
          IF call'.arg.factor < 0
          THEN call'.raised = "ValueError" /\ data' = data
          ELSE /\ call'.raised = None
               /\ data'.wave_direction = data.wave_direction
               /\ data'.omega = data.omega
               /\ data'.phase = data.phase
               /\ \A i \in Directions(data), j \in Frequencies(data) :
                    data'.amplitude[i][j] = data.amplitude[i][j] * call'.arg.factor]_vars

C3_Witness ==
    /\ call.op = "scale"
    /\ call.arg.factor = 2
    /\ call.raised = None
    /\ data.amplitude = <<<<16, 16>>, <<8, 8>>>>

\* C4: the amplitude is >= 0 at every grid point, in every state.
C4_AmplitudeNonNegative ==
    \A i \in Directions(data), j \in Frequencies(data) : data.amplitude[i][j] >= 0

\* C5: get_value at a heading and a frequency that are both on the axes
\* returns amplitude * exp(i*phase) of that point and leaves the table, the
\* channels stored on it among it, as it was.
C5_ExactPointNoMutation ==
    [][(/\ call'.op = "get_value"
        /\ Contains(data.wave_direction, call'.arg.wave_direction)
        /\ Contains(data.omega, call'.arg.omega)) =>
          /\ data' = data
          /\ \E i \in Directions(data), j \in Frequencies(data) :
               /\ data.wave_direction[i] = call'.arg.wave_direction
               /\ data.omega[j] = call'.arg.omega
               /\ ret' = <<<<Complex(data.amplitude[i][j], data.phase[i][j])>>>>]_vars

\* the table that add_direction(h) and then add_frequency(w) leave of ds is
\* left as it is by add_direction(h) and by add_frequency(w), neither of
\* which fails, and holds no value twice on an axis
C6_PairRepeated(ds, h, w) ==
    \A zd \in AddDirectionRoundings(ds, h) :
        (CanAddFrequency(AddDirection(ds, h, zd), <<w>>) = TRUE) =>
            \A zf \in AddFrequencyRoundings(AddDirection(ds, h, zd), <<w>>) :
                LET d2 == AddFrequency(AddDirection(ds, h, zd), <<w>>, zf)
                IN /\ NoDup(d2.wave_direction)
                   /\ NoDup(d2.omega)
                   /\ ~AddDirectionRaises(d2, h)
                   /\ ~AddFrequencyRaises(d2, <<w>>)
                   /\ \A z \in AddDirectionRoundings(d2, h) : AddDirection(d2, h, z) = d2
                   /\ \A z \in AddFrequencyRoundings(d2, <<w>>) : AddFrequency(d2, <<w>>, z) = d2

\* C6: on a table whose axes hold no value twice, add_direction(h), or
\* add_frequency(w) for a scalar w, does not fail, puts its argument on its
\* axis, leaves the other axis as it was and no value twice on an axis, and
\* leaves a table that holds the argument already exactly as it was; and
\* for every such table and every h and w, add_direction(h) and
\* add_frequency(w) made again after the two have been made leave the table
\* exactly as the first two left it, so after any number of repetitions.
C6_IdempotentInsertion ==
    /\ [](\A h \in HeadingInputs, w \in FrequencyInputs :
            (/\ NoDup(data.wave_direction)
             /\ NoDup(data.omega)
             /\ CanAddDirection(data, h) = TRUE) => C6_PairRepeated(data, h, w))
    /\ [][(/\ NoDup(data.wave_direction)
           /\ NoDup(data.omega)
           /\ call'.op = "add_direction") =>
             /\ call'.raised = None
             /\ Contains(data'.wave_direction, call'.arg.wave_direction)
             /\ data'.omega = data.omega
             /\ NoDup(data'.wave_direction)
             /\ Contains(data.wave_direction, call'.arg.wave_direction) => data' = data]_vars
    /\ [][(/\ NoDup(data.wave_direction)
           /\ NoDup(data.omega)
           /\ call'.op = "add_frequency"
           /\ Len(call'.arg.omega) = 1) =>
             /\ call'.raised = None
             /\ Contains(data'.omega, call'.arg.omega[1])
             /\ data'.wave_direction = data.wave_direction
             /\ NoDup(data'.omega)
             /\ Contains(data.omega, call'.arg.omega[1]) => data' = data]_vars

C6_Witness ==
    /\ call.op = "add_direction"
    /\ call.arg.wave_direction = 270
    /\ data.wave_direction = <<0, 180, 270>>
    /\ data.phase[3] = <<6, -4>>

\* C9, as claimed: after regrid_omega(new_omega) the frequency axis is
\* new_omega in ascending order, the heading axis is as before, the table is
\* dense and holds no complex_unit.
C9_SortedAxis ==
    [][call'.op = "regrid_omega" =>
          /\ data'.omega = SortedSeq(call'.arg.new_omega)
          /\ data'.wave_direction = data.wave_direction
          /\ Dense(data')
          /\ data'.complex_unit = Absent]_vars

\* C9, amended: on a table whose frequency axis holds no value twice,
\* regrid_omega(new_omega) does not fail, and after it the frequency axis is
\* new_omega in the order given, the heading axis is as before, the table is
\* dense and holds no complex_unit.
C9_AxisAsGiven ==
    [][(call'.op = "regrid_omega" /\ NoDup(data.omega)) =>
          /\ call'.raised = None
          /\ data'.omega = call'.arg.new_omega
          /\ data'.wave_direction = data.wave_direction
          /\ Dense(data')
          /\ data'.complex_unit = Absent]_vars

C9_Witness ==
    /\ call.op = "regrid_omega"
    /\ call.raised = None
    /\ call.arg.new_omega = <<4, 0>>
    /\ data.omega = <<4, 0>>
    /\ data.phase = <<<<0, 0>>, <<-8, 12>>>>

\* the same axes and amplitudes, and the same phases modulo 2 pi
SameGrid(a, b) ==
    /\ a.wave_direction = b.wave_direction
    /\ a.omega = b.omega
    /\ a.amplitude = b.amplitude
    /\ \A i \in Directions(a), j \in Frequencies(a) : SameAngle(a.phase[i][j], b.phase[i][j])

\* every point of ds0 is a point of ds, with its amplitude and its phase
\* modulo 2 pi
KeepsPoints(ds, ds0) ==
    \A i \in Directions(ds0), j \in Frequencies(ds0) :
        \E k \in Directions(ds), l \in Frequencies(ds) :
            /\ ds.wave_direction[k] = ds0.wave_direction[i]
            /\ ds.omega[l] = ds0.omega[j]
            /\ ds.amplitude[k][l] = ds0.amplitude[i][j]
            /\ SameAngle(ds.phase[k][l], ds0.phase[i][j])

\* C10: for a heading h and a frequency w that are not on the axes,
\* add_direction(h) then add_frequency(w) gives the table that
\* add_frequency(w) then add_direction(h) gives, and each insertion keeps
\* the points that were there.
C10_OrderIndependent ==
    \A h \in HeadingInputs, w \in FrequencyInputs :
        (/\ ~Contains(data.wave_direction, h)
         /\ ~Contains(data.omega, w)
         /\ NoDup(data.wave_direction)
         /\ NoDup(data.omega)
         /\ CanAddDirection(data, h)
         /\ CanAddFrequency(data, <<w>>)) =>
            \A zd \in AddDirectionRoundings(data, h), zf \in AddFrequencyRoundings(data, <<w>>) :
                (/\ CanAddFrequency(AddDirection(data, h, zd), <<w>>)
                 /\ CanAddDirection(AddFrequency(data, <<w>>, zf), h)) =>
                    /\ KeepsPoints(AddDirection(data, h, zd), data)
                    /\ KeepsPoints(AddFrequency(data, <<w>>, zf), data)
                    /\ \A zdf \in AddFrequencyRoundings(AddDirection(data, h, zd), <<w>>),
                          zfd \in AddDirectionRoundings(AddFrequency(data, <<w>>, zf), h) :
                            SameGrid(AddFrequency(AddDirection(data, h, zd), <<w>>, zdf),
                                     AddDirection(AddFrequency(data, <<w>>, zf), h, zfd))

====
